---- MODULE Spec2Model ----
(***************************************************************************)
(* A model of tmp-events-to-discord (src/src/main.rs,                      *)
(* src/src/tmp_response.rs): one invocation fetches the created and the    *)
(* attending events of a VTC from TruckersMP, connects to Discord, lists   *)
(* the guild's scheduled events and creates one scheduled event for every  *)
(* fetched event that carries no marker yet and starts in the future.      *)
(*                                                                         *)
(* Strings are sequences of Unicode scalar values (code points), so that   *)
(* byte lengths, character boundaries, substring search, decimal           *)
(* formatting and date parsing are computed, not assumed.                  *)
(***************************************************************************)
EXTENDS Integers, Sequences, FiniteSets, TLC

(***************************************************************************)
(* Bounds of the model.                                                    *)
(***************************************************************************)
\* at most this many events in the two source lists together
MaxEvents == 2

(***************************************************************************)
(* Option values: None is the empty tuple, Some(x) the one-element tuple.  *)
(***************************************************************************)
None == << >>
Some(x) == << x >>

(***************************************************************************)
(* String literals of main.rs, as code points.                             *)
(***************************************************************************)
\* "https://truckersmp.com"
TMP_BASE_URL ==
  <<104, 116, 116, 112, 115, 58, 47, 47, 116, 114, 117, 99, 107, 101, 114,
    115, 109, 112, 46, 99, 111, 109>>
\* "[See on TruckersMP]("
LinkOpen ==
  <<91, 83, 101, 101, 32, 111, 110, 32, 84, 114, 117, 99, 107, 101, 114, 115,
    77, 80, 93, 40>>
\* ")\n\n"
LinkClose == <<41, 10, 10>>
\* "\n\n### "
SuffixOpen == <<10, 10, 35, 35, 35, 32>>
\* "### " and " ###"
MarkerOpen == <<35, 35, 35, 32>>
MarkerClose == <<32, 35, 35, 35>>
\* the description limit of line 84
DescLimit == 1000

(***************************************************************************)
(* str::len, str::is_char_boundary, String::truncate, str::contains.       *)
(***************************************************************************)
\* char::len_utf8
Utf8Width(c) == IF c < 128 THEN 1 ELSE IF c < 2048 THEN 2 ELSE IF c < 65536 THEN 3 ELSE 4

RECURSIVE BytesBetween(_, _, _)
\* the bytes of the characters s[lo..hi], halving so that long strings stay shallow
BytesBetween(s, lo, hi) ==
  IF lo > hi THEN 0
  ELSE IF lo = hi THEN Utf8Width(s[lo])
  ELSE LET mid == (lo + hi) \div 2
       IN  BytesBetween(s, lo, mid) + BytesBetween(s, mid + 1, hi)

\* str::len: the length in bytes
ByteLen(s) == BytesBetween(s, 1, Len(s))

\* str::is_char_boundary: 0 and len are boundaries, an index beyond len is not,
\* an index inside is one iff it is where a character starts
IsCharBoundary(s, i) ==
  \E k \in 0..Len(s) : BytesBetween(s, 1, k) = i

\* String::truncate(at), at a character boundary at <= len
Truncate(s, at) ==
  LET k == CHOOSE k \in 0..Len(s) : BytesBetween(s, 1, k) = at
  IN  SubSeq(s, 1, k)

\* str::contains
Contains(s, pat) ==
  \E i \in 1..(Len(s) - Len(pat) + 1) : SubSeq(s, i, i + Len(pat) - 1) = pat

EndsWith(s, pat) ==
  /\ Len(pat) <= Len(s)
  /\ SubSeq(s, Len(s) - Len(pat) + 1, Len(s)) = pat

StartsWith(s, pat) ==
  /\ Len(pat) <= Len(s)
  /\ SubSeq(s, 1, Len(pat)) = pat

(***************************************************************************)
(* format!("{}", u64): the decimal digits.                                 *)
(***************************************************************************)
RECURSIVE ToDecimal(_)
ToDecimal(n) ==
  IF n < 10 THEN <<48 + n>> ELSE ToDecimal(n \div 10) \o <<48 + (n % 10)>>

\* a marker written without its spaces: "###{event_id}###"
Marker_NoSpaces(id) == <<35, 35, 35>> \o ToDecimal(id) \o <<35, 35, 35>>

\* format!("### {event_id} ###"), line 51
Marker(id) == MarkerOpen \o ToDecimal(id) \o MarkerClose

\* format!("\n\n### {} ###", event.id()), line 79
DescSuffix(id) == SuffixOpen \o ToDecimal(id) \o MarkerClose

\* format!("[See on TruckersMP]({}{})\n\n", TMP_BASE_URL, event.url()), line 77
DescPrefix(url) == LinkOpen \o TMP_BASE_URL \o url \o LinkClose

(***************************************************************************)
(* The sanitised body, lines 81-82: every '\r' removed, then every match   *)
(* of MARKDOWN_IMAGE_REGEX  !(\[[^\]]*\])?\([^)]*\)  removed (leftmost,    *)
(* non-overlapping).                                                       *)
(***************************************************************************)
RECURSIVE FirstIndex(_, _, _)
\* the first index >= from where s holds c, or 0
FirstIndex(s, c, from) ==
  IF from > Len(s) THEN 0
  ELSE IF s[from] = c THEN from
  ELSE FirstIndex(s, c, from + 1)

\* the index of the last character of the regex match starting at i, or 0.
\* '!' is 33, '[' 91, ']' 93, '(' 40, ')' 41.  [^\]]* stops at the first ']' and
\* [^)]* at the first ')'; without the bracket group '(' must follow '!' at once.
ImageMatchEnd(s, i) ==
  IF s[i] # 33 \/ i + 1 > Len(s) THEN 0
  ELSE IF s[i + 1] = 40 THEN FirstIndex(s, 41, i + 2)
  ELSE IF s[i + 1] = 91
       THEN LET k == FirstIndex(s, 93, i + 2)
            IN  IF k = 0 \/ k + 1 > Len(s) \/ s[k + 1] # 40 THEN 0
                ELSE FirstIndex(s, 41, k + 2)
  ELSE 0

RECURSIVE StripImagesFrom(_, _)
StripImagesFrom(s, i) ==
  IF i > Len(s) THEN << >>
  ELSE LET e == ImageMatchEnd(s, i)
       IN  IF e > 0 THEN StripImagesFrom(s, e + 1)
           ELSE <<s[i]>> \o StripImagesFrom(s, i + 1)

\* str::replace('\r', "")
StripCR(s) == SelectSeq(s, LAMBDA c : c # 13)

\* lines 81-82
Sanitize(description) == StripImagesFrom(StripCR(description), 1)

(***************************************************************************)
(* NaiveDateTime::parse_from_str(s, "%Y-%m-%d %H:%M:%S"), line 66, for     *)
(* strings of the shape YYYY-MM-DD HH:MM:SS; the result is the number of   *)
(* seconds since 1970-01-01 00:00:00 of the naive date-time.               *)
(***************************************************************************)
IsDigit(c) == c >= 48 /\ c <= 57

\* the number written by the digits s[lo..hi]
RECURSIVE DigitsValue(_, _, _)
DigitsValue(s, lo, hi) ==
  IF lo > hi THEN 0 ELSE DigitsValue(s, lo, hi - 1) * 10 + (s[hi] - 48)

IsLeap(y) == (y % 4 = 0 /\ y % 100 # 0) \/ y % 400 = 0

DaysInMonth(y, m) ==
  IF m = 2 THEN (IF IsLeap(y) THEN 29 ELSE 28)
  ELSE IF m \in {4, 6, 9, 11} THEN 30 ELSE 31

\* days since 1970-01-01 of the civil date y-m-d (y >= 1970)
DaysFromCivil(y, m, d) ==
  LET yy  == IF m <= 2 THEN y - 1 ELSE y
      era == yy \div 400
      yoe == yy - era * 400
      mp  == IF m > 2 THEN m - 3 ELSE m + 9
      doy == (153 * mp + 2) \div 5 + d - 1
      doe == yoe * 365 + yoe \div 4 - yoe \div 100 + doy
  IN  era * 146097 + doe - 719468

EpochSeconds(y, mo, d, h, mi, s) ==
  DaysFromCivil(y, mo, d) * 86400 + h * 3600 + mi * 60 + s

\* Ok(seconds) as Some(seconds), Err as None
ParseStartAt(s) ==
  IF /\ Len(s) = 19
     /\ \A i \in {1, 2, 3, 4, 6, 7, 9, 10, 12, 13, 15, 16, 18, 19} : IsDigit(s[i])
     /\ s[5] = 45 /\ s[8] = 45 /\ s[11] = 32 /\ s[14] = 58 /\ s[17] = 58
  THEN LET y  == DigitsValue(s, 1, 4)
           mo == DigitsValue(s, 6, 7)
           d  == DigitsValue(s, 9, 10)
           h  == DigitsValue(s, 12, 13)
           mi == DigitsValue(s, 15, 16)
           se == DigitsValue(s, 18, 19)
       IN  IF /\ mo >= 1 /\ mo <= 12
              /\ d >= 1 /\ d <= DaysInMonth(y, mo)
              /\ h <= 23 /\ mi <= 59 /\ se <= 59
           THEN Some(EpochSeconds(y, mo, d, h, mi, se))
           ELSE None
  ELSE None

(***************************************************************************)
(* usize arithmetic of line 84.  1000 - a - b is evaluated left to right   *)
(* on usize.  A result below zero panics when the build checks overflow    *)
(* (debug profile) and wraps modulo 2^64 otherwise (release profile); the  *)
(* wrapped value 2^64 - below is kept as its distance below 2^64.          *)
(***************************************************************************)
UsizeSub(a, b) ==
  IF a >= b THEN [overflow |-> FALSE, val |-> a - b]
  ELSE [overflow |-> TRUE, below |-> b - a]

\* line 84: 1000 - desc_prefix.len() - desc_suffix.len()
TruncateAt(prefix, suffix) ==
  LET first == UsizeSub(DescLimit, ByteLen(prefix))
  IN  IF first.overflow
      THEN [overflow |-> TRUE, below |-> first.below + ByteLen(suffix)]
      ELSE UsizeSub(first.val, ByteLen(suffix))

RECURSIVE FloorBoundary(_, _)
\* lines 85-87: while !desc.is_char_boundary(truncate_at) { truncate_at -= 1 }.
\* No index above desc.len() is a boundary, so from there the loop walks down
\* to desc.len().
FloorBoundary(desc, truncate_at) ==
  IF truncate_at > ByteLen(desc) THEN ByteLen(desc)
  ELSE IF IsCharBoundary(desc, truncate_at) THEN truncate_at
  ELSE FloorBoundary(desc, truncate_at - 1)

\* lines 84-88 for an in-range or wrapped truncate_at: a wrapped value exceeds
\* every string length, so the loop ends at desc.len()
TruncatedBody(desc, at) ==
  IF at.overflow THEN desc
  ELSE Truncate(desc, FloorBoundary(desc, at.val))

\* the suffix appended to the body before the cut instead of after it
BuildEvent_CutAfterSuffix(event, start, at) ==
  [ kind        |-> "External",
    name        |-> event.name,
    start_time  |-> start,
    end_time    |-> start + 60 * 60,
    description |-> DescPrefix(event.url)
                      \o TruncatedBody(Sanitize(event.description)
                                         \o DescSuffix(event.id), at),
    location    |-> event.departure.city,
    reason      |-> "Created from TruckersMP event",
    image       |-> None ]

\* lines 77-98: the CreateScheduledEvent built for an event starting at start
\* (image is attached later, lines 100-104)
BuildEvent(event, start, at) ==
  [ kind        |-> "External",
    name        |-> event.name,
    start_time  |-> start,
    end_time    |-> start + 60 * 60,
    description |-> DescPrefix(event.url)
                      \o TruncatedBody(Sanitize(event.description), at)
                      \o DescSuffix(event.id),
    location    |-> event.departure.city,
    reason      |-> "Created from TruckersMP event",
    image       |-> None ]

(***************************************************************************)
(* The inputs: the events TruckersMP may return, the host's UTC offsets,   *)
(* the scheduled events the guild may hold before the first run.           *)
(***************************************************************************)
\* 2026-11-01 12:00:00 UTC, the clock when the behaviour starts
T0 == EpochSeconds(2026, 11, 1, 12, 0, 0)
TickStep == 30 * 60
\* the instants the clock shows: before, at and after 12:30:00
LastInstant == T0 + 2 * TickStep

\* "/aaa...a" of n characters
LongUrl(n) == [i \in 1..n |-> IF i = 1 THEN 47 ELSE 97]

\* id 1, "2026-11-01 12:30:00", a banner, "Hi\r\n![pic](http://x/y.png) go!", "/events/1"
EvConvoy ==
  [ id |-> 1, name |-> "Convoy", departure |-> [city |-> "Calais"],
    start_at |-> <<50, 48, 50, 54, 45, 49, 49, 45, 48, 49, 32, 49, 50, 58, 51, 48, 58, 48, 48>>,
    banner |-> Some("https://static.truckersmp.com/banner1.png"),
    description |-> <<72, 105, 13, 10, 33, 91, 112, 105, 99, 93, 40, 104, 116, 116, 112, 58,
                      47, 47, 120, 47, 121, 46, 112, 110, 103, 41, 32, 103, 111, 33>>,
    url |-> <<47, 101, 118, 101, 110, 116, 115, 47, 49>> ]

\* id 3, start_at "TBA" (not a date), no banner
EvNoDate ==
  [ id |-> 3, name |-> "Meetup", departure |-> [city |-> "Oslo"],
    start_at |-> <<84, 66, 65>>,
    banner |-> None,
    description |-> <<115, 111, 111, 110>>,
    url |-> <<47, 101, 118, 101, 110, 116, 115, 47, 51>> ]

\* id 4, "2026-11-01 12:30:00", a url of 941 bytes: 3 bytes are left for the
\* body "a<U+20AC>b" (1 + 3 + 1 bytes), and byte 3 is inside U+20AC
EvLong ==
  [ id |-> 4, name |-> "Long haul", departure |-> [city |-> "Lyon"],
    start_at |-> <<50, 48, 50, 54, 45, 49, 49, 45, 48, 49, 32, 49, 50, 58, 51, 48, 58, 48, 48>>,
    banner |-> None,
    description |-> <<97, 8364, 98>>,
    url |-> LongUrl(941) ]

\* id 5, a url of 942 bytes: 2 bytes are left for the body "<U+1F69A>a"
\* (4 + 1 bytes), and no boundary but 0 is at or below 2
EvFull ==
  [ id |-> 5, name |-> "Full load", departure |-> [city |-> "Graz"],
    start_at |-> <<50, 48, 50, 54, 45, 49, 49, 45, 48, 49, 32, 49, 50, 58, 51, 48, 58, 48, 48>>,
    banner |-> None,
    description |-> <<128666, 97>>,
    url |-> LongUrl(942) ]

\* id 11, a url of 944 bytes: prefix and suffix take 989 + 12 bytes
EvOver ==
  [ id |-> 11, name |-> "Overlong", departure |-> [city |-> "Kiel"],
    start_at |-> <<50, 48, 50, 54, 45, 49, 49, 45, 48, 49, 32, 49, 50, 58, 51, 48, 58, 48, 48>>,
    banner |-> None,
    description |-> <<120>>,
    url |-> LongUrl(944) ]

\* The events TruckersMP may return.  A list of EventIndex values is held in
\* the state as the list of their names here; E(name) is the value.
EventPool == {"convoy", "nodate", "long", "full", "over"}

E(name) ==
  CASE name = "convoy" -> EvConvoy
    [] name = "nodate" -> EvNoDate
    [] name = "long"   -> EvLong
    [] name = "full"   -> EvFull
    [] name = "over"   -> EvOver

SeqsUpTo(S, n) == UNION {[1..k -> S] : k \in 0..n}

\* what the created endpoint may hold
CreatedLists == SeqsUpTo(EventPool, MaxEvents)

\* what the attending endpoint may hold beside created: at most MaxEvents
\* events together
AttendingLists(created) == SeqsUpTo(EventPool, MaxEvents - Len(created))

\* the host's offset from UTC in seconds: west of, at and east of Greenwich
Offsets == {0 - 3600, 0, 3600}

\* a guild's scheduled events before the first run: none; one without a
\* description and one whose text holds the markers of ids 11 and 5 but not of
\* id 1; one whose text holds the marker of id 1
InitialGuilds ==
  { << >>,
    << [description |-> None],
       [description |-> Some(<<120>> \o Marker(11) \o <<33>> \o Marker(5))] >>,
    << [description |-> Some(<<111, 108, 100, 32>> \o Marker(1) \o <<46>>)] >> }

(***************************************************************************)
(* Lines 47-59: the events of data that no listed event's description      *)
(* marks, in data's order.                                                 *)
(***************************************************************************)
\* lines 49-56: some listed event has a description containing the marker
AlreadyFound(events, event_id) ==
  \E i \in 1..Len(events) :
     /\ events[i].description # None
     /\ Contains(events[i].description[1], Marker(event_id))

RECURSIVE NewPositionsFrom(_, _, _)
\* the positions in data of the events pushed to new_events, from position i on
NewPositionsFrom(data, events, i) ==
  IF i > Len(data) THEN << >>
  ELSE IF AlreadyFound(events, E(data[i]).id)
       THEN NewPositionsFrom(data, events, i + 1)
       ELSE <<i>> \o NewPositionsFrom(data, events, i + 1)

\* an id is taken once per run: only its first unmarked occurrence is new
NewPositions_FirstOnly(data, events) ==
  SelectSeq(NewPositionsFrom(data, events, 1),
            LAMBDA i : \A j \in 1..(i - 1) : E(data[j]).id # E(data[i]).id)

NewPositions(data, events) == NewPositionsFrom(data, events, 1)

\* new_events after the loop of lines 47-59
NewEvents(data, events) ==
  LET pos == NewPositions(data, events)
  IN  [k \in 1..Len(pos) |-> data[pos[k]]]

\* lines 65-67: the parsed start, or Local::now().naive_local() when parsing
\* fails: the UTC clock shifted by the host's offset
StartTime(event, utc_now, offset) ==
  LET parsed == ParseStartAt(event.start_at)
  IN  IF parsed # None THEN parsed[1] ELSE utc_now + offset

\* line 69, negated: start_time.and_utc() > Utc::now()
InFuture(start, utc_now) == start > utc_now

(***************************************************************************)
(* The state.                                                              *)
(***************************************************************************)
VARIABLES
  source,          \* what TruckersMP holds: [created, attending], each None
                   \* until it is first fetched, then Some(list) for good
  tz_offset,       \* the host's offset from UTC in seconds: None until
                   \* Local::now() first reads it, then Some(offset) for good
  now,             \* the UTC clock, in seconds since 1970
  guild,           \* the guild's scheduled events on Discord, oldest first:
                   \* None until they are first listed, then Some(list)
  run,             \* the number of the invocation
  pc,              \* where the invocation is
  exit_code,       \* None while it runs, Some(code) once it has exited
  data_created,    \* main: None, or Some(Response)
  data_attending,  \* main: None, or Some(Response)
  data,            \* Handler.data
  connected,       \* client.start() has been called
  events,          \* process_events: the listed scheduled events
  new_events,      \* process_events: new_events
  new_pos,         \* the position in data of new_events[1], [2], ...
  next,            \* process_events: the index in new_events of the loop of line 64
  ev,              \* process_events: None, or Some(the event being built)
  list_calls,      \* scheduled_events calls of this invocation
  downloads,       \* CreateAttachment::url calls of this invocation
  calls,           \* create_scheduled_event calls of this invocation
  arith,           \* "ok", or how line 84 overflowed: "panic" or "wrapped"
  ready_guilds,    \* None, or Some(ready.guilds.len())
  list_ok,         \* None, or Some(the list call succeeded)
  checked_at,      \* the clock read at line 69 for new_events[1], [2], ...
  created_before,  \* ids of the events the earlier invocation created
  aborted_before   \* the earlier invocation ended on a failed create call

vars ==
  << source, tz_offset, now, guild, run, pc, exit_code, data_created,
     data_attending, data, connected, events, new_events, new_pos, next, ev,
     list_calls, downloads, calls, arith, ready_guilds, list_ok, checked_at,
     created_before, aborted_before >>

env == << source, tz_offset, now, guild, run, created_before, aborted_before >>
main_vars == << data_created, data_attending, data, connected >>
handler_vars ==
  << events, new_events, new_pos, next, ev, list_calls, downloads, calls,
     arith, ready_guilds, list_ok, checked_at >>

Init ==
  /\ source = [created |-> None, attending |-> None]
  /\ tz_offset = None
  /\ now = T0
  /\ guild = None
  /\ run = 1
  /\ pc = "start"
  /\ exit_code = None
  /\ data_created = None
  /\ data_attending = None
  /\ data = << >>
  /\ connected = FALSE
  /\ events = << >>
  /\ new_events = << >>
  /\ new_pos = << >>
  /\ next = 1
  /\ ev = None
  /\ list_calls = 0
  /\ downloads = << >>
  /\ calls = << >>
  /\ arith = "ok"
  /\ ready_guilds = None
  /\ list_ok = None
  /\ checked_at = << >>
  /\ created_before = {}
  /\ aborted_before = FALSE

\* process::exit(code), or main returning (Err(_) exits with 1)
Exit(code) ==
  /\ pc' = "exited"
  /\ exit_code' = Some(code)

(***************************************************************************)
(* main, lines 142-199.                                                    *)
(***************************************************************************)
\* lines 144-157: the subscriber, dotenv and TMP_ID; each failure returns Err
Startup ==
  /\ pc = "start"
  /\ \E ok \in BOOLEAN :
       IF ok THEN pc' = "fetch_created" /\ exit_code' = exit_code
       ELSE Exit(1)
  /\ UNCHANGED << env, main_vars, handler_vars >>

\* lines 158-161: the request or the parse fails (Err), or a Response arrives
FetchCreated ==
  /\ pc = "fetch_created"
  /\ \/ /\ Exit(1)
        /\ UNCHANGED data_created
        /\ UNCHANGED source
     \/ /\ \E error \in BOOLEAN,
             list \in (IF source.created = None THEN CreatedLists
                       ELSE {source.created[1]}) :
             /\ source' = [source EXCEPT !.created = Some(list)]
             /\ data_created' = Some([error |-> error, response |-> list])
        /\ pc' = "fetch_attending"
        /\ UNCHANGED exit_code
  /\ UNCHANGED << tz_offset, now, guild, run, created_before, aborted_before,
                  data_attending, data, connected, handler_vars >>

\* lines 162-166
FetchAttending ==
  /\ pc = "fetch_attending"
  /\ \/ /\ Exit(1)
        /\ UNCHANGED data_attending
        /\ UNCHANGED source
     \/ /\ \E error \in BOOLEAN,
             list \in (IF source.attending = None
                       THEN AttendingLists(source.created[1])
                       ELSE {source.attending[1]}) :
             /\ source' = [source EXCEPT !.attending = Some(list)]
             /\ data_attending' = Some([error |-> error, response |-> list])
        /\ pc' = "merge"
        /\ UNCHANGED exit_code
  /\ UNCHANGED << tz_offset, now, guild, run, created_before, aborted_before,
                  data_created, data, connected, handler_vars >>

\* the attending events first
Merged_AttendingFirst(created, attending) == attending.response \o created.response

\* lines 173-178: data_created.response() followed by data_attending.response()
Merged(created, attending) == created.response \o attending.response

\* line 168: *data_created.error() || *data_attending.error()
UpstreamError(created, attending) == created.error \/ attending.error

\* lines 168-192: the error flags, the merge, DISCORD_TOKEN and the client
Merge ==
  /\ pc = "merge"
  /\ IF UpstreamError(data_created[1], data_attending[1])
     THEN Exit(1) /\ UNCHANGED data
     ELSE /\ data' = Merged(data_created[1], data_attending[1])
          /\ \E ok \in BOOLEAN :
               IF ok THEN pc' = "connect" /\ exit_code' = exit_code
               ELSE Exit(1)
  /\ UNCHANGED << env, data_created, data_attending, connected, handler_vars >>

\* only an empty guild list is refused
WrongGuildCount_OnlyZero(guilds) == guilds = 0

\* line 122: ready.guilds.len() != 1
WrongGuildCount(guilds) == guilds # 1

\* line 195 and Handler::ready, lines 119-130: the connection fails, or the
\* ready event arrives with the bot in guilds guilds
Ready ==
  /\ pc = "connect"
  /\ connected' = TRUE
  /\ \/ Exit(1) /\ UNCHANGED ready_guilds
     \/ \E guilds \in 0..2 :
          /\ ready_guilds' = Some(guilds)
          /\ IF WrongGuildCount(guilds) THEN Exit(1)
             ELSE pc' = "list" /\ exit_code' = exit_code
  /\ UNCHANGED << env, data_created, data_attending, data, events, new_events,
                  new_pos, next, ev, list_calls, downloads, calls, arith, list_ok,
                  checked_at >>

(***************************************************************************)
(* Handler::process_events, lines 35-114, and the exits of ready.          *)
(***************************************************************************)
\* lines 40-59: the list call fails (Err, ready exits 1), or it returns the
\* guild's events and the loop of lines 47-59 fills new_events
ListEvents ==
  /\ pc = "list"
  /\ list_calls' = list_calls + 1
  /\ \/ /\ Exit(1)
        /\ list_ok' = Some(FALSE)
        /\ UNCHANGED << guild, events, new_events, new_pos >>
     \/ /\ \E listed \in (IF guild = None THEN InitialGuilds ELSE {guild[1]}) :
             /\ guild' = Some(listed)
             /\ events' = listed
             /\ new_events' = NewEvents(data, listed)
             /\ new_pos' = NewPositions(data, listed)
        /\ list_ok' = Some(TRUE)
        /\ pc' = "loop"
        /\ UNCHANGED exit_code
  /\ UNCHANGED << source, tz_offset, now, run, created_before, aborted_before,
                  main_vars, next, ev, downloads, calls, arith, ready_guilds,
                  checked_at >>

\* lines 64-98 for new_events[next]: skipped when not in the future, else
\* built; an overflow at line 84 panics the handler's task (the process stays
\* up and never exits) or wraps, as the build has it
FormatCandidate ==
  /\ pc = "loop"
  /\ next <= Len(new_events)
  /\ LET event  == E(new_events[next])
         parses == ParseStartAt(event.start_at) # None
     IN  \E offset \in (IF parses \/ tz_offset # None THEN {tz_offset}
                        ELSE {Some(o) : o \in Offsets}) :
           LET start == StartTime(event, now, IF parses THEN 0 ELSE offset[1])
               at    == TruncateAt(DescPrefix(event.url), DescSuffix(event.id))
           IN  /\ tz_offset' = offset
               /\ IF ~InFuture(start, now)
                  THEN /\ next' = next + 1
                       /\ UNCHANGED << pc, ev, arith >>
                  ELSE IF at.overflow
                  THEN \/ /\ pc' = "panicked"
                          /\ arith' = "panic"
                          /\ UNCHANGED << next, ev >>
                       \/ /\ ev' = Some(BuildEvent(event, start, at))
                          /\ arith' = "wrapped"
                          /\ pc' = IF event.banner # None THEN "banner" ELSE "create"
                          /\ UNCHANGED next
                  ELSE /\ ev' = Some(BuildEvent(event, start, at))
                       /\ pc' = IF event.banner # None THEN "banner" ELSE "create"
                       /\ UNCHANGED << next, arith >>
  /\ checked_at' = Append(checked_at, now)
  /\ UNCHANGED << source, now, guild, run, created_before, aborted_before,
                  main_vars, exit_code, events, new_events, new_pos,
                  list_calls, downloads, calls, ready_guilds, list_ok >>

\* a failed download ends the run like a failed create call
DownloadBanner_Fatal ==
  /\ pc = "banner"
  /\ \E ok \in BOOLEAN :
       /\ downloads' = Append(downloads, [pos |-> new_pos[next],
                                          url |-> E(new_events[next]).banner[1],
                                          ok |-> ok])
       /\ IF ok
          THEN /\ ev' = Some([ev[1] EXCEPT !.image = E(new_events[next]).banner])
               /\ pc' = "create"
               /\ UNCHANGED exit_code
          ELSE /\ ev' = None
               /\ Exit(1)
  /\ UNCHANGED << env, main_vars, events, new_events, new_pos, next,
                  list_calls, calls, arith, ready_guilds, list_ok, checked_at >>

\* lines 100-104: the banner is downloaded; the image is attached if that worked
DownloadBanner ==
  /\ pc = "banner"
  /\ \E ok \in BOOLEAN :
       /\ downloads' = Append(downloads, [pos |-> new_pos[next],
                                          url |-> E(new_events[next]).banner[1],
                                          ok |-> ok])
       /\ ev' = IF ok THEN Some([ev[1] EXCEPT !.image = E(new_events[next]).banner])
                ELSE ev
  /\ pc' = "create"
  /\ UNCHANGED << env, main_vars, exit_code, events, new_events, new_pos,
                  next, list_calls, calls, arith, ready_guilds, list_ok,
                  checked_at >>

\* a failed create call is passed over and the loop goes on
CreateEvent_KeepGoing ==
  /\ pc = "create"
  /\ \E ok \in BOOLEAN :
       /\ calls' = Append(calls, [pos |-> new_pos[next],
                                  id |-> E(new_events[next]).id,
                                  event |-> ev[1],
                                  ok |-> ok])
       /\ guild' = IF ok
                   THEN Some(Append(guild[1],
                                    [description |-> Some(ev[1].description)]))
                   ELSE guild
  /\ next' = next + 1
  /\ pc' = "loop"
  /\ ev' = None
  /\ UNCHANGED << source, tz_offset, now, run, created_before, aborted_before,
                  main_vars, exit_code, events, new_events, new_pos, list_calls,
                  downloads, arith, ready_guilds, list_ok, checked_at >>

\* lines 106-110: the create call; Discord stores the event, or the call
\* fails and process_events returns the error (ready exits 1, lines 132-135)
CreateEvent ==
  /\ pc = "create"
  /\ \E ok \in BOOLEAN :
       /\ calls' = Append(calls, [pos |-> new_pos[next],
                                  id |-> E(new_events[next]).id,
                                  event |-> ev[1],
                                  ok |-> ok])
       /\ IF ok
          THEN /\ guild' = Some(Append(guild[1],
                                        [description |-> Some(ev[1].description)]))
               /\ next' = next + 1
               /\ pc' = "loop"
               /\ UNCHANGED exit_code
          ELSE /\ Exit(1)
               /\ UNCHANGED << guild, next >>
  /\ ev' = None
  /\ UNCHANGED << source, tz_offset, now, run, created_before, aborted_before,
                  main_vars, events, new_events, new_pos, list_calls, downloads,
                  arith, ready_guilds, list_ok, checked_at >>

\* line 113 and lines 132-137: Ok(()), and ready exits 0
Finish ==
  /\ pc = "loop"
  /\ next > Len(new_events)
  /\ Exit(0)
  /\ UNCHANGED << env, main_vars, handler_vars >>

(***************************************************************************)
(* The environment.                                                        *)
(***************************************************************************)
\* the clock advances.  It is read at lines 67 and 69 only, so it is enough
\* to let it advance before a candidate is looked at.
Tick ==
  /\ pc = "loop"
  /\ next <= Len(new_events)
  /\ now < LastInstant
  /\ now' = now + TickStep
  /\ UNCHANGED << source, tz_offset, guild, run, created_before, aborted_before,
                  pc, exit_code, main_vars, handler_vars >>

\* the ids of the create calls of this invocation that succeeded
CreatedIds(cs) == {cs[i].id : i \in {j \in 1..Len(cs) : cs[j].ok}}

\* the program is invoked once more, on the same source data
NextRun ==
  /\ pc = "exited"
  /\ run = 1
  /\ run' = run + 1
  /\ created_before' = created_before \cup CreatedIds(calls)
  /\ aborted_before' = \E i \in 1..Len(calls) : ~calls[i].ok
  /\ pc' = "start"
  /\ exit_code' = None
  /\ data_created' = None
  /\ data_attending' = None
  /\ data' = << >>
  /\ connected' = FALSE
  /\ events' = << >>
  /\ new_events' = << >>
  /\ new_pos' = << >>
  /\ next' = 1
  /\ ev' = None
  /\ list_calls' = 0
  /\ downloads' = << >>
  /\ calls' = << >>
  /\ arith' = "ok"
  /\ ready_guilds' = None
  /\ list_ok' = None
  /\ checked_at' = << >>
  /\ UNCHANGED << source, tz_offset, now, guild >>

Next ==
  \/ Startup
  \/ FetchCreated
  \/ FetchAttending
  \/ Merge
  \/ Ready
  \/ ListEvents
  \/ FormatCandidate
  \/ DownloadBanner
  \/ CreateEvent
  \/ Finish
  \/ Tick
  \/ NextRun

Spec == Init /\ [][Next]_vars

(***************************************************************************)
(* What the properties below speak of.                                     *)
(***************************************************************************)
\* the decimal text of the ids of EventPool, written out
IdText(id) ==
  CASE id = 1  -> <<49>>
    [] id = 3  -> <<51>>
    [] id = 4  -> <<52>>
    [] id = 5  -> <<53>>
    [] id = 11 -> <<49, 49>>

\* "### X ###" and "\n\n### X ###", written out
MarkerText(id) == <<35, 35, 35, 32>> \o IdText(id) \o <<32, 35, 35, 35>>
TailText(id) == <<10, 10>> \o MarkerText(id)

\* some listed event has a description holding the marker of id
Marked(id) ==
  \E j \in 1..Len(events) :
     /\ events[j].description # None
     /\ Contains(events[j].description[1], MarkerText(id))

\* the candidate at position i of the merged list
Candidate(i) == E(data[i])

CallsAt(i) == {c \in 1..Len(calls) : calls[c].pos = i}
CallsFor(id) == {c \in 1..Len(calls) : calls[c].id = id}
OkCalls == {c \in 1..Len(calls) : calls[c].ok}

\* new_events[k] has been looked at and left behind, or has got its create call
Settled(k) == k <= Len(checked_at) /\ (k < next \/ CallsAt(new_pos[k]) # {})

\* the start of new_events[k] parses and was strictly after the clock read for it
ParsedFuture(k) ==
  LET parsed == ParseStartAt(E(new_events[k]).start_at)
  IN  parsed # None /\ parsed[1] > checked_at[k]

\* the descriptions of the successful create calls, in call order
RECURSIVE CreatedDescriptions(_)
CreatedDescriptions(cs) ==
  IF cs = << >> THEN << >>
  ELSE CreatedDescriptions(SubSeq(cs, 1, Len(cs) - 1)) \o
       (IF cs[Len(cs)].ok
        THEN << [description |-> Some(cs[Len(cs)].event.description)] >>
        ELSE << >>)

\* the events built so far in this run, each with the position of its candidate
Built ==
  {[pos |-> calls[c].pos, event |-> calls[c].event] : c \in 1..Len(calls)} \cup
  (IF ev = None THEN {} ELSE {[pos |-> new_pos[next], event |-> ev[1]]})

(***************************************************************************)
(* C1.  For every list E of existing events and every candidate with id X  *)
(* of the merged list: if a description in E holds "### X ###" no create   *)
(* call is issued for the candidate; if none does (an event without a      *)
(* description never matches) a create call is issued for it exactly when  *)
(* its start_at, parsed as YYYY-MM-DD HH:MM:SS and read as UTC, is         *)
(* strictly after the current UTC time.                                    *)
(***************************************************************************)
C1_CreateIffUnmarkedAndFuture ==
  list_ok = Some(TRUE) =>
    /\ \A i \in 1..Len(data) :
         /\ Marked(Candidate(i).id) => CallsAt(i) = {}
         /\ ~Marked(Candidate(i).id) <=> \E k \in 1..Len(new_pos) : new_pos[k] = i
    /\ \A k \in 1..Len(new_pos) :
         Settled(k) => (CallsAt(new_pos[k]) # {} <=> ParsedFuture(k))

(***************************************************************************)
(* C2.  A candidate whose start_at does not parse raises no error, counts  *)
(* as starting now and is always past, whatever the host's UTC offset: no  *)
(* create call is ever issued for it.                                      *)
(***************************************************************************)
C2_UnparsableNeverCreated ==
  \A b \in Built : ParseStartAt(Candidate(b.pos).start_at) # None

(***************************************************************************)
(* C3.  For every creation candidate the description prefix + truncated    *)
(* body + suffix has at most 1000 bytes, the cut point 1000 - len(prefix)  *)
(* - len(suffix) never underflows, the truncated body is a prefix of the   *)
(* sanitized body B ending on a character boundary, and B is untruncated   *)
(* when prefix + B + suffix fits in 1000.                                  *)
(***************************************************************************)
C3_DescriptionFitsAndCutIsSound ==
  /\ arith = "ok"
  /\ \A b \in Built :
       LET c == Candidate(b.pos)
           B == Sanitize(c.description)
           P == DescPrefix(c.url)
           S == TailText(c.id)
       IN  /\ ByteLen(b.event.description) <= 1000
           /\ \E k \in 0..Len(B) :
                /\ b.event.description = P \o SubSeq(B, 1, k) \o S
                /\ ByteLen(P \o B \o S) <= 1000 => k = Len(B)

(***************************************************************************)
(* C4.  Every create call for a candidate with id X carries a description  *)
(* that ends with "\n\n### X ###", truncated body or not, and the          *)
(* candidate's departure city as location.                                 *)
(***************************************************************************)
C4_MarkerSuffixAndLocation ==
  \A c \in 1..Len(calls) :
     /\ calls[c].id = Candidate(calls[c].pos).id
     /\ EndsWith(calls[c].event.description, TailText(calls[c].id))
     /\ calls[c].event.location = Candidate(calls[c].pos).departure.city

\* a call whose body was cut short of the sanitized body but not to nothing,
\* and a call whose body was cut to nothing
C4_Witness ==
  \E c, d \in 1..Len(calls) :
     /\ data[calls[c].pos] = "long"
     /\ calls[c].event.description = DescPrefix(EvLong.url) \o <<97>> \o TailText(4)
     /\ data[calls[d].pos] = "full"
     /\ calls[d].event.description = DescPrefix(EvFull.url) \o TailText(5)
     /\ Sanitize(EvFull.description) # << >>

(***************************************************************************)
(* C5.  In the second of two consecutive runs on the same source data, no  *)
(* create call is issued for an id the first run created successfully,     *)
(* also when the first run ended on a failed create call.                  *)
(***************************************************************************)
C5_NoSecondCreate ==
  run = 2 => \A c \in 1..Len(calls) : calls[c].id \notin created_before

\* the first run created one candidate and failed on the other; the second
\* run passed over the first and created the other
C5_Witness ==
  /\ run = 2
  /\ aborted_before
  /\ pc = "exited" /\ exit_code = Some(0)
  /\ \E i \in 1..Len(data) : Candidate(i).id \in created_before
  /\ \E c \in 1..Len(calls) : calls[c].ok

(***************************************************************************)
(* C6.  The merged list is the created events followed by the attending    *)
(* events, nothing reordered, dropped or deduplicated; the create calls of *)
(* a run, read by candidate, follow the merged list's order, and each      *)
(* create call has completed before the next candidate is formatted.       *)
(***************************************************************************)
C6_MergeOrderAndCallOrder ==
  /\ ( /\ data_created # None /\ data_attending # None
       /\ ~data_created[1].error /\ ~data_attending[1].error
       /\ pc # "merge" )
     => LET created   == data_created[1].response
            attending == data_attending[1].response
        IN  /\ Len(data) = Len(created) + Len(attending)
            /\ \A i \in 1..Len(data) :
                 data[i] = IF i <= Len(created) THEN created[i]
                           ELSE attending[i - Len(created)]
  /\ \A c \in 1..Len(calls) :
       /\ calls[c].pos \in 1..Len(data)
       /\ calls[c].id = Candidate(calls[c].pos).id
       /\ \A d \in 1..(c - 1) : calls[d].pos < calls[c].pos /\ calls[d].ok
  /\ ev # None =>
       \A c \in 1..Len(calls) : calls[c].ok /\ calls[c].pos < new_pos[next]

\* both lists hold an event, of different ids, and both were created
C6_Witness ==
  /\ data_created # None /\ data_attending # None
  /\ Len(data_created[1].response) = 1 /\ Len(data_attending[1].response) = 1
  /\ data_created[1].response # data_attending[1].response
  /\ Len(calls) = 2

(***************************************************************************)
(* C7.  A create call is issued only after both responses arrived with     *)
(* error false, ready reported exactly one guild and the list call         *)
(* succeeded.  An error flag exits with 1 before the connection; a guild   *)
(* count other than 1 exits with 1 without a list call; a failed list call *)
(* exits with 1 with no create call.                                       *)
(***************************************************************************)
C7_CreateOnlyAfterAllChecks ==
  /\ (calls # << >> \/ ev # None) =>
       /\ data_created # None /\ ~data_created[1].error
       /\ data_attending # None /\ ~data_attending[1].error
       /\ ready_guilds = Some(1)
       /\ list_ok = Some(TRUE)
  /\ ( \/ (data_created # None /\ data_created[1].error)
       \/ (data_attending # None /\ data_attending[1].error) )
     => /\ ~connected
        /\ pc \in {"fetch_attending", "merge", "exited"}
        /\ pc = "exited" => exit_code = Some(1)
  /\ (ready_guilds # None /\ ready_guilds # Some(1)) =>
       /\ pc = "exited" /\ exit_code = Some(1)
       /\ list_calls = 0
  /\ list_ok = Some(FALSE) =>
       /\ pc = "exited" /\ exit_code = Some(1)
       /\ calls = << >>

\* a create call went out
C7_Witness ==
  /\ calls # << >>
  /\ ready_guilds = Some(1)
  /\ list_ok = Some(TRUE)

(***************************************************************************)
(* C8.  A failed create call ends the run at once: no create call and no   *)
(* banner download follows, the events created before stay in place and    *)
(* the process exits with 1.  When every create call succeeded the process *)
(* exits with 0.                                                           *)
(***************************************************************************)
C8_FailedCreateAborts ==
  /\ \A c \in 1..Len(calls) :
       ~calls[c].ok =>
         /\ c = Len(calls)
         /\ pc = "exited" /\ exit_code = Some(1)
         /\ ev = None
         /\ \A d \in 1..Len(downloads) : downloads[d].pos <= calls[c].pos
  /\ list_ok = Some(TRUE) => guild[1] = events \o CreatedDescriptions(calls)
  /\ (pc = "exited" /\ list_ok = Some(TRUE)) =>
       (exit_code = Some(0) <=> \A c \in 1..Len(calls) : calls[c].ok)

\* the first of two candidates failed; the second one, which has a banner and
\* lies in the future, got neither download nor create call
C8_Witness ==
  /\ Len(calls) = 1 /\ ~calls[1].ok
  /\ Len(new_events) = 2 /\ new_events[2] = "convoy"
  /\ now = T0
  /\ downloads = << >>

\* "[See on TruckersMP](https://truckersmp.com/events/1)\n\nHi\n go!\n\n### 1 ###"
ConvoyDescription ==
  <<91, 83, 101, 101, 32, 111, 110, 32, 84, 114, 117, 99, 107, 101, 114, 115,
    77, 80, 93, 40, 104, 116, 116, 112, 115, 58, 47, 47, 116, 114, 117, 99,
    107, 101, 114, 115, 109, 112, 46, 99, 111, 109, 47, 101, 118, 101, 110,
    116, 115, 47, 49, 41, 10, 10, 72, 105, 10, 32, 103, 111, 33, 10, 10, 35,
    35, 35, 32, 49, 32, 35, 35, 35>>

DownloadsAt(i) == {d \in 1..Len(downloads) : downloads[d].pos = i}

(***************************************************************************)
(* C9.  A failed banner download is no error: the create call still goes   *)
(* out with the same name, start, end (start plus one hour), location and  *)
(* description, only without an image, and the loop goes on; a candidate   *)
(* without a banner triggers no download.                                  *)
(***************************************************************************)
C9_BannerFailureIsNotFatal ==
  /\ \A d \in 1..Len(downloads) :
       /\ Candidate(downloads[d].pos).banner = Some(downloads[d].url)
       /\ DownloadsAt(downloads[d].pos) = {d}
       /\ \/ CallsAt(downloads[d].pos) # {}
          \/ pc = "create" /\ new_pos[next] = downloads[d].pos
  /\ \A c \in 1..Len(calls) :
       LET cand == Candidate(calls[c].pos)
       IN  IF cand.banner = None
           THEN /\ DownloadsAt(calls[c].pos) = {}
                /\ calls[c].event.image = None
           ELSE /\ \E d \in DownloadsAt(calls[c].pos) :
                     calls[c].event.image =
                       IF downloads[d].ok THEN cand.banner ELSE None
                /\ calls[c].event.kind = "External"
                /\ calls[c].event.name = "Convoy"
                /\ calls[c].event.start_time = EpochSeconds(2026, 11, 1, 12, 30, 0)
                /\ calls[c].event.end_time = EpochSeconds(2026, 11, 1, 13, 30, 0)
                /\ calls[c].event.location = "Calais"
                /\ calls[c].event.description = ConvoyDescription

\* the banner of the first candidate could not be fetched, its event was
\* created without an image, and the next candidate was created after it
C9_Witness ==
  /\ Len(downloads) = 1 /\ ~downloads[1].ok
  /\ Len(calls) = 2
  /\ calls[1].pos = downloads[1].pos
  /\ calls[1].ok /\ calls[1].event.image = None
  /\ calls[2].ok

(***************************************************************************)
(* C10.  The existing events are listed once per run, before the first     *)
(* create call, and the list is not updated by the run's own create calls: *)
(* an id that occurs k times in the merged list, lies in the future and    *)
(* has no marker among the listed events gets k create calls in a run      *)
(* without a failed create call.                                           *)
(***************************************************************************)
C10_ListedOnceAndDuplicatesCreated ==
  /\ list_calls <= 1
  /\ (calls # << >> \/ ev # None) => (list_calls = 1 /\ list_ok = Some(TRUE))
  /\ list_ok = Some(TRUE) =>
       /\ Len(guild[1]) = Len(events) + Cardinality(OkCalls)
       /\ SubSeq(guild[1], 1, Len(events)) = events
  /\ (pc = "exited" /\ exit_code = Some(0)) =>
       \A i \in 1..Len(data) :
          LET id == Candidate(i).id
              occurrences == {j \in 1..Len(data) : Candidate(j).id = id}
          IN  ( /\ ~Marked(id)
                /\ \A k \in 1..Len(new_events) :
                     E(new_events[k]).id = id => ParsedFuture(k) )
              => Cardinality(CallsFor(id)) = Cardinality(occurrences)

\* the same event in the created and in the attending list, created twice
C10_Witness ==
  /\ pc = "exited" /\ exit_code = Some(0)
  /\ Len(data) = 2 /\ data[1] = data[2]
  /\ Len(calls) = 2 /\ calls[1].id = calls[2].id

====
